---- MODULE Spec2Model ----
(***************************************************************************)
(* ProphetForecastingModel (src/prophet-model.py): the fit / predict /     *)
(* save / load life cycle of forecasting-model instances, with the data    *)
(* preparation, regressor registration and future-grid merge they use.    *)
(*                                                                         *)
(* Tables are sequences of rows aligned with a sequence of columns; a cell *)
(* is [nan, v].  Prepared target values are kept in eighths (v * 8), the   *)
(* denominator of the quartile interpolation and of the 1.5 * IQR fences.  *)
(* The Prophet library is outside the repository: its objects are records  *)
(* [state, extra_regressors, history_dates, fit] and its calls raise where *)
(* the library raises (unfitted object, empty frame, absent or NaN         *)
(* regressor, fewer than two usable rows) or where the environment makes   *)
(* the numerical step fail.                                                *)
(***************************************************************************)
EXTENDS Integers, Sequences, FiniteSets, TLC

VARIABLES inst, store, clock, last, fitCalls, everFitted, savedSummary, fitting

vars == <<inst, store, clock, last, fitCalls, everFitted, savedSummary, fitting>>

----------------------------------------------------------------------------
(* Bounds of the model and the inputs of the calls *)

MaxFits == 2
MaxPeriods == 2

Instances == {"a", "b"}
Paths == {"model.pkl"}
Names == {"prophet_forecasting", "sales_model"}
SeasonalityModes == {"multiplicative", "invalid"}
Freqs == {"D"}
Periods == 0..MaxPeriods
Times == {0, 1}

----------------------------------------------------------------------------
(* Tables *)

Cell(v) == [nan |-> FALSE, v |-> v]
NaN == [nan |-> TRUE, v |-> 0]
Col(n, t) == [name |-> n, dtype |-> t]

NumericDtypes == {"float64", "int64", "float32", "int32"}

\* three daily points out of order, the first in time without a value, a
\* fully populated numeric regressor and a text column
TableReg ==
  [cols |-> <<Col("ds", "datetime64"), Col("y", "float64"),
              Col("x", "float64"), Col("region", "object")>>,
   rows |-> << <<Cell(2), Cell(12), Cell(5), Cell(0)>>,
               <<Cell(1), NaN, Cell(4), Cell(0)>>,
               <<Cell(3), Cell(40), Cell(6), Cell(0)>> >>]

\* three daily points under the caller's column names, no other column
TableNamed ==
  [cols |-> <<Col("date", "datetime64"), Col("sales", "float64")>>,
   rows |-> << <<Cell(1), Cell(10)>>, <<Cell(2), Cell(12)>>, <<Cell(3), Cell(11)>> >>]

\* a single point: too few rows for the optimizer
TableShort ==
  [cols |-> <<Col("ds", "datetime64"), Col("y", "float64")>>,
   rows |-> << <<Cell(1), Cell(10)>> >>]

Tables == [reg |-> TableReg, named |-> TableNamed, short |-> TableShort]
TableIds == DOMAIN Tables
TargetCols == {"y", "sales"}
DateCols == {"ds", "date"}

----------------------------------------------------------------------------
(* Sequence helpers *)

HasCol(df, n) == \E k \in 1..Len(df.cols) : df.cols[k].name = n
ColIndex(df, n) == CHOOSE k \in 1..Len(df.cols) : df.cols[k].name = n

Rename(df, old, new) ==
  [df EXCEPT !.cols = [k \in 1..Len(df.cols) |->
        IF df.cols[k].name = old THEN [df.cols[k] EXCEPT !.name = new] ELSE df.cols[k]]]

\* rows in non-decreasing order of column k, equal keys in input order:
\* a row comes after the rows with a smaller key and the earlier rows with
\* the same key
SortRows(rows, k) ==
  LET n == Len(rows)
      place == <<>> \o [i \in 1..n |->
                  1 + Cardinality({j \in 1..n : \/ rows[j][k].v < rows[i][k].v
                                                \/ rows[j][k].v = rows[i][k].v /\ j < i})]
  IN [p \in 1..n |-> rows[CHOOSE i \in 1..n : place[i] = p]]

Filter(rows, k) == SelectSeq(rows, LAMBDA r : ~r[k].nan)

\* a forward fill that fills nothing
Ffill_skipped(rows, k) == rows

\* fillna(method="ffill"): a missing cell takes the nearest value before it
Ffill(rows, k) ==
  [i \in 1..Len(rows) |->
     IF ~rows[i][k].nan THEN rows[i]
     ELSE LET before == {j \in 1..(i - 1) : ~rows[j][k].nan}
          IN IF before = {} THEN rows[i]
             ELSE [rows[i] EXCEPT ![k] = rows[CHOOSE j \in before : \A m \in before : m <= j][k]]]

\* fillna(method="bfill"): a missing cell takes the nearest value after it
Bfill(rows, k) ==
  [i \in 1..Len(rows) |->
     IF ~rows[i][k].nan THEN rows[i]
     ELSE LET after == {j \in (i + 1)..Len(rows) : ~rows[j][k].nan}
          IN IF after = {} THEN rows[i]
             ELSE [rows[i] EXCEPT ![k] = rows[CHOOSE j \in after : \A m \in after : j <= m][k]]]

\* Series.quantile(num/4) times 4, by linear interpolation over the sorted
\* non-missing values
Quantile4(rows, k, num) ==
  LET vals == SortRows(Filter(rows, k), k)
      n == Len(vals)
      lo == (num * (n - 1)) \div 4
      r == (num * (n - 1)) % 4
      hi == IF lo + 2 <= n THEN lo + 2 ELSE n
  IN 4 * vals[lo + 1][k].v + r * (vals[hi][k].v - vals[lo + 1][k].v)

\* the IQR fences, in eighths
LowerBound8(rows, k) ==
  2 * Quantile4(rows, k, 1) - 3 * (Quantile4(rows, k, 3) - Quantile4(rows, k, 1))
UpperBound8(rows, k) ==
  2 * Quantile4(rows, k, 3) + 3 * (Quantile4(rows, k, 3) - Quantile4(rows, k, 1))

\* outlier handling that removes the rows outside the fences
Clip_removes(rows, k) ==
  IF Filter(rows, k) = <<>> THEN rows
  ELSE LET lo == LowerBound8(rows, k)
           up == UpperBound8(rows, k)
           kept == SelectSeq(rows, LAMBDA r : r[k].nan \/ (lo <= 8 * r[k].v /\ 8 * r[k].v <= up))
       IN [i \in 1..Len(kept) |->
            IF kept[i][k].nan THEN kept[i] ELSE [kept[i] EXCEPT ![k] = Cell(8 * kept[i][k].v)]]

\* capping at the quartiles themselves, without the 1.5 * IQR margin
Clip_narrow(rows, k) ==
  IF Filter(rows, k) = <<>> THEN rows
  ELSE LET lo == 2 * Quantile4(rows, k, 1)
           up == 2 * Quantile4(rows, k, 3)
       IN [i \in 1..Len(rows) |->
            IF rows[i][k].nan THEN rows[i]
            ELSE LET v8 == 8 * rows[i][k].v
                 IN [rows[i] EXCEPT ![k] =
                       Cell(IF v8 < lo THEN lo ELSE IF v8 > up THEN up ELSE v8)]]

\* Series.clip(lower, upper); the result is in eighths.  With no non-missing
\* value the fences are NaN and nothing is clipped.
Clip(rows, k) ==
  IF Filter(rows, k) = <<>> THEN rows
  ELSE LET lo == LowerBound8(rows, k)
           up == UpperBound8(rows, k)
       IN [i \in 1..Len(rows) |->
            IF rows[i][k].nan THEN rows[i]
            ELSE LET v8 == 8 * rows[i][k].v
                 IN [rows[i] EXCEPT ![k] =
                       Cell(IF v8 < lo THEN lo ELSE IF v8 > up THEN up ELSE v8)]]

PrepFailed == [ok |-> FALSE]

InsertAt(seq, j, row) == SubSeq(seq, 1, j - 1) \o <<row>> \o SubSeq(seq, j, Len(seq))

\* the row orders sort_values("ds") can return: it is called without
\* kind="stable", and the default quicksort promises no order among rows
\* with equal keys, so every order that is non-decreasing in column k is one
RECURSIVE SortOutcomes(_, _)
SortOutcomes(rows, k) ==
  IF rows = <<>> THEN {<<>>}
  ELSE LET n == Len(rows)
           row == rows[n]
           Places(s) == {j \in 1..n : /\ \A i \in 1..(j - 1) : s[i][k].v <= row[k].v
                                      /\ \A i \in j..(n - 1) : row[k].v <= s[i][k].v}
       IN UNION {{InsertAt(s, j, row) : j \in Places(s)} :
                   s \in SortOutcomes(SubSeq(rows, 1, n - 1), k)}

\* the renames of prepare_data (lines 73-76)
Renamed(df, target_col, date_col) ==
  LET d1 == IF date_col # "ds" THEN Rename(df, date_col, "ds") ELSE df
  IN IF target_col # "y" THEN Rename(d1, target_col, "y") ELSE d1

\* data["ds"] or data["y"] raises, or the quantile of a non-numeric column does
PrepRaises(d2) ==
  \/ ~HasCol(d2, "ds") \/ ~HasCol(d2, "y")
  \/ d2.cols[ColIndex(d2, "y")].dtype \notin NumericDtypes

\* the fill and the clip of prepare_data on the sorted rows
prepare_sorted(d2, sorted) ==
  LET ky == ColIndex(d2, "y")
  IN [ok |-> TRUE, df |-> [d2 EXCEPT !.rows = Clip(Bfill(Ffill(sorted, ky), ky), ky)]]

\* prepare_data(df, target_col, date_col): the prepared frame, or the failure
\* that the method turns into ModelTrainingException; rows with equal
\* timestamps are taken in input order
prepare_data(df, target_col, date_col) ==
  LET d2 == Renamed(df, target_col, date_col)
  IN IF PrepRaises(d2) THEN PrepFailed
     ELSE prepare_sorted(d2, SortRows(d2.rows, ColIndex(d2, "ds")))

\* every result prepare_data can return, one per order of the sort
prepare_data_outcomes(df, target_col, date_col) ==
  LET d2 == Renamed(df, target_col, date_col)
  IN IF PrepRaises(d2) THEN {PrepFailed}
     ELSE {prepare_sorted(d2, sorted) : sorted \in SortOutcomes(d2.rows, ColIndex(d2, "ds"))}

\* the caller's frame after prepare_data: the method works on df.copy()
CallerFrameAfter(df) == df

----------------------------------------------------------------------------
(* The Prophet object and the instance *)

NoModel == [state |-> "none"]
EmptyMetrics == [keys |-> {}]
EmptyMetadata == [keys |-> {}]

\* Prophet(...): a new, unfitted object
NewProphet(mode) ==
  [state |-> "new", seasonality_mode |-> mode, extra_regressors |-> <<>>,
   history_dates |-> <<>>, fit |-> <<>>]

\* __init__: the constructor arguments and the empty fitted state
NewInstance(name, mode) ==
  [name |-> name, seasonality_mode |-> mode, model |-> NoModel,
   feature_columns |-> <<>>, target_column |-> "",
   training_metrics |-> EmptyMetrics, metadata |-> EmptyMetadata]

\* the hyperparameters reported by fit's metadata and by get_model_summary
ModelParams(s) ==
  [seasonality_mode |-> s.seasonality_mode, changepoint_prior_scale |-> "0.05",
   seasonality_prior_scale |-> "10.0", holidays_prior_scale |-> "10.0"]

\* self.metadata as a reader sees it: metadata["feature_columns"] is the very
\* list object self.feature_columns (fit stores the reference, a saved file
\* keeps the sharing), so it shows that list's current content
MetadataView(s) ==
  IF "feature_columns" \in s.metadata.keys
  THEN [s.metadata EXCEPT !.feature_columns = s.feature_columns]
  ELSE s.metadata

\* the fields of the instance that a fit produces
FittedState(s) ==
  [model |-> s.model, feature_columns |-> s.feature_columns,
   target_column |-> s.target_column, training_metrics |-> s.training_metrics,
   metadata |-> MetadataView(s)]

\* add_regressors: every numeric column other than ds and y is registered on
\* the Prophet object and appended to self.feature_columns
RECURSIVE add_regressors(_, _, _)
add_regressors(s, cols, k) ==
  IF k > Len(cols) THEN s
  ELSE IF cols[k].name \notin {"ds", "y"} /\ cols[k].dtype \in NumericDtypes
       THEN add_regressors(
              [s EXCEPT !.model.extra_regressors = Append(@, cols[k].name),
                        !.feature_columns = Append(@, cols[k].name)],
              cols, k + 1)
       ELSE add_regressors(s, cols, k + 1)

\* the distinct timestamps of the rows Prophet trains on, ascending
RECURSIVE Dedup(_)
Dedup(ds) ==
  IF Len(ds) <= 1 THEN ds
  ELSE LET head == Dedup(SubSeq(ds, 1, Len(ds) - 1))
       IN IF head[Len(head)] = ds[Len(ds)] THEN head ELSE Append(head, ds[Len(ds)])

HistoryDates(df) ==
  LET kd == ColIndex(df, "ds")
      hist == SortRows(Filter(df.rows, ColIndex(df, "y")), kd)
  IN Dedup([i \in 1..Len(hist) |-> hist[i][kd].v])

\* Prophet.fit raises before optimizing: fewer than two rows with a value,
\* or a registered regressor with a missing value
ProphetRejects(model, df) ==
  \/ Len(Filter(df.rows, ColIndex(df, "y"))) < 2
  \/ \E k \in 1..Len(model.extra_regressors) :
       \E i \in 1..Len(df.rows) : df.rows[i][ColIndex(df, model.extra_regressors[k])].nan

\* the training metrics of a fit
Metrics(fit) == [keys |-> {"mape", "rmse", "mae", "r2"}, of |-> fit]

\* prepare_data on every table and column naming a call can pass
PreparedData ==
  [t \in TableIds, tc \in TargetCols, dc \in DateCols |-> prepare_data(Tables[t], tc, dc)]

\* self.model.fit(prepared_data) on the new object: TRUE when it returns
ProphetFits(model, df, optOK) == ~ProphetRejects(model, df) /\ optOK

\* _calculate_training_metrics: stores the metrics, or logs a warning and
\* leaves self.training_metrics as it was
calculate_training_metrics(s, metricsOK) ==
  IF metricsOK THEN [s EXCEPT !.training_metrics = Metrics(s.model.fit)] ELSE s

\* fit(data, target_col, date_col): the instance after the call and the
\* exception raised, if any.  optOK and metricsOK are the outcomes of the
\* optimizer and of the in-sample metrics pass; now is datetime.now().
fit(s, t, target_col, date_col, optOK, metricsOK, now) ==
  LET prep == PreparedData[t, target_col, date_col]
      s1 == [s EXCEPT !.target_column = target_col]
      s2 == [s1 EXCEPT !.model = NewProphet(s.seasonality_mode)]
      s3 == add_regressors(s2, prep.df.cols, 1)
      s4 == [s3 EXCEPT !.model.state = "fitted",
                       !.model.history_dates = HistoryDates(prep.df),
                       !.model.fit = <<t, target_col, date_col>>]
      s5 == calculate_training_metrics(s4, metricsOK)
      s6 == [s5 EXCEPT !.metadata =
               [keys |-> {"training_samples", "feature_columns", "target_column",
                          "training_date", "model_params"},
                training_samples |-> Len(prep.df.rows),
                feature_columns |-> "self.feature_columns",
                target_column |-> s5.target_column,
                training_date |-> now,
                model_params |-> ModelParams(s5)]]
  IN IF ~prep.ok THEN [state |-> s, raised |-> "ModelTrainingException"]
     ELSE IF s.seasonality_mode \notin {"additive", "multiplicative"}
          THEN [state |-> s1, raised |-> "ModelTrainingException"]
     ELSE IF ~ProphetFits(s3.model, prep.df, optOK)
          THEN [state |-> s3, raised |-> "ModelTrainingException"]
     ELSE [state |-> s6, raised |-> "none"]

----------------------------------------------------------------------------
(* Future-regressor frames and predict *)

FRow(d, c) == [ds |-> d, x |-> c]

\* values of x for every day of the history and of the horizon
FrameFull ==
  [cols |-> {"ds", "x"},
   rows |-> <<FRow(1, Cell(4)), FRow(2, Cell(5)), FRow(3, Cell(6)),
              FRow(4, Cell(7)), FRow(5, Cell(8))>>]
\* two rows for day 4
FrameDup ==
  [cols |-> {"ds", "x"},
   rows |-> <<FRow(4, Cell(7)), FRow(4, Cell(9)), FRow(5, Cell(8))>>]
\* day 4 absent, day 9 beyond the grid
FrameGap ==
  [cols |-> {"ds", "x"}, rows |-> <<FRow(5, Cell(8)), FRow(9, Cell(1))>>]
\* no timestamp column
FrameNoDs ==
  [cols |-> {"x"}, rows |-> <<FRow(0, Cell(7))>>]

Frames == [full |-> FrameFull, dup |-> FrameDup, gap |-> FrameGap, nods |-> FrameNoDs]
FrameArgs == DOMAIN Frames \cup {"None"}

StepDays(freq) == IF freq = "D" THEN 1 ELSE 2

\* Prophet.make_future_dataframe(periods, freq, include_history)
make_future_dataframe(model, periods, freq, include_history) ==
  LET h == model.history_dates
      lastDate == h[Len(h)]
      dates == [k \in 1..periods |-> lastDate + k * StepDays(freq)]
  IN IF include_history THEN h \o dates ELSE dates

\* future.merge(future_regressors[['ds', col]], on='ds', how='left'): every
\* grid row once per frame row of its timestamp, or once with NaN
RECURSIVE Merge(_, _, _)
Merge(rows, frame, col) ==
  IF rows = <<>> THEN <<>>
  ELSE LET r == rows[1]
           hits == SelectSeq(frame.rows, LAMBDA f : f.ds = r.ds)
       IN (IF hits = <<>> THEN <<[r EXCEPT !.vals = Append(@, NaN)]>>
           ELSE [j \in 1..Len(hits) |-> [r EXCEPT !.vals = Append(@, hits[j][col])]])
          \o Merge(Tail(rows), frame, col)

\* future[col] = future[col].fillna(method='ffill') on the newest column
RECURSIVE FfillLast(_)
FfillLast(rows) ==
  IF rows = <<>> THEN <<>>
  ELSE LET n == Len(rows)
           head == FfillLast(SubSeq(rows, 1, n - 1))
           r == rows[n]
           k == Len(r.vals)
       IN IF r.vals[k].nan /\ n > 1 /\ ~head[n - 1].vals[k].nan
          THEN Append(head, [r EXCEPT !.vals[k] = head[n - 1].vals[k]])
          ELSE Append(head, r)

InSeq(x, sq) == \E k \in 1..Len(sq) : sq[k] = x

\* the loop over self.feature_columns: [ok, cols, rows]; a frame without ds,
\* or a column merged a second time, raises
RECURSIVE MergeRegressors(_, _, _, _)
MergeRegressors(future, feature_columns, frame, k) ==
  IF k > Len(feature_columns) \/ ~future.ok THEN future
  ELSE LET col == feature_columns[k]
       IN IF col \notin frame.cols THEN MergeRegressors(future, feature_columns, frame, k + 1)
          ELSE IF "ds" \notin frame.cols \/ InSeq(col, future.cols)
               THEN [future EXCEPT !.ok = FALSE]
          ELSE MergeRegressors(
                 [ok |-> TRUE, cols |-> Append(future.cols, col),
                  rows |-> FfillLast(Merge(future.rows, frame, col))],
                 feature_columns, frame, k + 1)

\* Prophet.predict(future) raises: empty frame, a registered regressor that
\* is no column of the frame or has a missing value in it
ProphetPredictRejects(model, future) ==
  \/ future.rows = <<>>
  \/ \E k \in 1..Len(model.extra_regressors) : ~InSeq(model.extra_regressors[k], future.cols)
  \/ \E i \in 1..Len(future.rows) : \E k \in 1..Len(future.cols) :
       InSeq(future.cols[k], model.extra_regressors) /\ future.rows[i].vals[k].nan

\* one row of the returned forecast; the numeric fields are terms over what
\* they are computed from.  The sampling stream behind the interval fields is
\* seeded alike before every call.
ForecastRow(s, r, now) ==
  LET at == <<s.model.fit, s.model.seasonality_mode, r.ds, r.vals>>
  IN [ds |-> r.ds, yhat |-> <<"yhat", at>>,
      yhat_lower |-> <<"lower", at>>, yhat_upper |-> <<"upper", at>>,
      prediction_date |-> now, model_name |-> s.name,
      confidence_width |-> <<"width", at>>,
      relative_uncertainty |-> <<"relative", at>>]

\* the body of predict's try block: the rows, or the error raised inside it
\* (by the library on an unfitted object or a rejected frame, by the merge)
try_predict(s, periods, freq, include_history, fr, now) ==
  IF s.model.state # "fitted" THEN [raised |-> "Exception", rows |-> <<>>]
  ELSE LET grid == make_future_dataframe(s.model, periods, freq, include_history)
           future0 == [ok |-> TRUE, cols |-> <<>>,
                       rows |-> [k \in 1..Len(grid) |-> [ds |-> grid[k], vals |-> <<>>]]]
           future == IF fr # "None" /\ Len(s.feature_columns) > 0
                     THEN MergeRegressors(future0, s.feature_columns, Frames[fr], 1)
                     ELSE future0
       IN IF ~future.ok THEN [raised |-> "KeyError", rows |-> <<>>]
          ELSE IF ProphetPredictRejects(s.model, future)
               THEN [raised |-> "ValueError", rows |-> <<>>]
          ELSE [raised |-> "none",
                rows |-> [k \in 1..Len(future.rows) |->
                            ForecastRow(s, future.rows[k], now)]]

PredictionFailed == [raised |-> "PredictionException", rows |-> <<>>]

\* predict without its except clause: an error of the try block escapes as it is
predict_uncaught(s, periods, freq, include_history, fr, now) ==
  IF s.model = NoModel THEN PredictionFailed
  ELSE try_predict(s, periods, freq, include_history, fr, now)

\* predict(periods, freq, include_history, future_regressors): the rows
\* returned, or the exception raised
predict(s, periods, freq, include_history, fr, now) ==
  IF s.model = NoModel THEN PredictionFailed
  ELSE LET r == try_predict(s, periods, freq, include_history, fr, now)
       IN IF r.raised # "none" THEN PredictionFailed ELSE r

----------------------------------------------------------------------------
(* Summary, feature importance, save and load *)

\* get_model_summary()
get_model_summary(s) ==
  IF s.model = NoModel THEN [status |-> "not_trained"]
  ELSE [model_name |-> s.name, model_type |-> "Prophet Forecasting",
        training_metrics |-> s.training_metrics,
        feature_columns |-> s.feature_columns,
        target_column |-> s.target_column,
        model_params |-> ModelParams(s),
        metadata |-> MetadataView(s)]

\* get_feature_importance(): no entry of extra_regressors has a "coef" key,
\* so every registered regressor is reported with 0
get_feature_importance(s) ==
  IF s.model = NoModel THEN <<>>
  ELSE [k \in 1..Len(s.model.extra_regressors) |-> <<s.model.extra_regressors[k], 0>>]

NoFile == [exists |-> FALSE]

\* the dictionary save_model hands to joblib.dump
ModelData(s) ==
  [exists |-> TRUE, model |-> s.model, feature_columns |-> s.feature_columns,
   target_column |-> s.target_column, training_metrics |-> s.training_metrics,
   metadata |-> s.metadata]

\* save_model(filepath): the file afterwards and the exception raised
save_model(s, file, ioOK) ==
  IF s.model = NoModel THEN [file |-> file, raised |-> "ValueError"]
  ELSE IF ~ioOK THEN [file |-> file, raised |-> "Exception"]
  ELSE [file |-> ModelData(s), raised |-> "none"]

\* the entries load_model reads from the loaded dictionary, in the order of
\* its assignments (lines 395-399)
ArtifactEntries ==
  <<"model", "feature_columns", "target_column", "training_metrics", "metadata">>

\* the assignments of load_model from entry k on: each one replaces its
\* attribute at once, and an entry the dictionary lacks raises KeyError
\* with the earlier assignments done
RECURSIVE LoadEntries(_, _, _)
LoadEntries(s, file, k) ==
  IF k > Len(ArtifactEntries) THEN [state |-> s, raised |-> "none"]
  ELSE IF ArtifactEntries[k] \notin DOMAIN file THEN [state |-> s, raised |-> "Exception"]
  ELSE LoadEntries([s EXCEPT ![ArtifactEntries[k]] = file[ArtifactEntries[k]]], file, k + 1)

\* load_model(filepath): the instance afterwards and the exception raised
load_model(s, file) ==
  IF ~file.exists THEN [state |-> s, raised |-> "Exception"]
  ELSE LoadEntries(s, file, 1)

\* predict that keeps the columns it merged: it registers the model's
\* regressors on the instance once more
PredictEffect_appends(s) ==
  IF s.model = NoModel THEN s
  ELSE [s EXCEPT !.feature_columns = @ \o s.model.extra_regressors]

\* predict that refreshes the cached training metrics
PredictEffect_recomputes(s) ==
  IF s.model = NoModel THEN s
  ELSE [s EXCEPT !.training_metrics = Metrics(<<"predict">>)]

\* what predict changes on the instance: nothing
PredictEffect(s) == s

----------------------------------------------------------------------------
(* The state machine.  last records the latest call: the instance before it, *)
(* the exception it raised, what it returned and, for predict, whether it    *)
(* repeats the call before it; everFitted[i] records that                    *)
(* a fit call on instance i has returned; savedSummary[p] is the summary of  *)
(* the saving instance at the time file p was written; fitting is the fit   *)
(* call that a thread is running, with the line it has reached.            *)

NoResult == <<>>

\* no fit call is running
NoFit == [pc |-> "idle"]

Call(op, i, args, pre, raised, result, repeat) ==
  [op |-> op, i |-> i, args |-> args, pre |-> pre, raised |-> raised,
   result |-> result, repeat |-> repeat]

DefaultInstance == NewInstance("prophet_forecasting", "multiplicative")
Constructed == {NewInstance(n, m) : n \in Names, m \in SeasonalityModes}

InitRest ==
  /\ store = [p \in Paths |-> NoFile]
  /\ clock = 0
  /\ last = Call("init", "a", <<>>, DefaultInstance, "none", NoResult, FALSE)
  /\ fitCalls = [i \in Instances |-> 0]
  /\ everFitted = [i \in Instances |-> FALSE]
  /\ savedSummary = [p \in Paths |-> NoResult]
  /\ fitting = NoFit

\* one instance under test, constructed with either seasonality mode
Init ==
  /\ inst \in [Instances -> Constructed]
  /\ inst["a"].name = DefaultInstance.name
  /\ inst["b"] = DefaultInstance
  /\ InitRest

\* a training instance and a loading instance constructed with any arguments
InitStore ==
  /\ inst \in [Instances -> Constructed]
  /\ inst["a"] = DefaultInstance
  /\ InitRest

Fit(i, t, target_col, date_col, optOK, metricsOK) ==
  /\ fitCalls[i] < MaxFits
  /\ LET r == fit(inst[i], t, target_col, date_col, optOK, metricsOK, clock)
     IN /\ inst' = [inst EXCEPT ![i] = r.state]
        /\ last' = Call("fit", i, <<metricsOK>>, inst[i], r.raised, NoResult, FALSE)
        /\ everFitted' = [everFitted EXCEPT ![i] = @ \/ r.raised = "none"]
  /\ fitCalls' = [fitCalls EXCEPT ![i] = @ + 1]
  /\ UNCHANGED <<store, clock, savedSummary, fitting>>

Predict(i, periods, freq, include_history, fr) ==
  /\ LET args == <<periods, freq, include_history, fr>>
         r == predict(inst[i], periods, freq, include_history, fr, clock)
     IN last' = Call("predict", i, args, inst[i], r.raised, r.rows,
                     last.op = "predict" /\ last.i = i /\ last.args = args)
  /\ inst' = [inst EXCEPT ![i] = PredictEffect(@)]
  /\ UNCHANGED <<store, clock, fitCalls, everFitted, savedSummary, fitting>>

GetModelSummary(i) ==
  /\ last' = Call("get_model_summary", i, <<>>, inst[i], "none",
                  get_model_summary(inst[i]), FALSE)
  /\ UNCHANGED <<inst, store, clock, fitCalls, everFitted, savedSummary, fitting>>

GetFeatureImportance(i) ==
  /\ last' = Call("get_feature_importance", i, <<>>, inst[i], "none",
                  get_feature_importance(inst[i]), FALSE)
  /\ UNCHANGED <<inst, store, clock, fitCalls, everFitted, savedSummary, fitting>>

SaveModel(i, p, ioOK) ==
  /\ LET r == save_model(inst[i], store[p], ioOK)
     IN /\ store' = [store EXCEPT ![p] = r.file]
        /\ savedSummary' = [savedSummary EXCEPT ![p] =
                              IF r.raised = "none" THEN get_model_summary(inst[i]) ELSE @]
        /\ last' = Call("save_model", i, <<p>>, inst[i], r.raised, NoResult, FALSE)
  /\ UNCHANGED <<inst, clock, fitCalls, everFitted, fitting>>

LoadModel(i, p) ==
  /\ LET r == load_model(inst[i], store[p])
     IN /\ inst' = [inst EXCEPT ![i] = r.state]
        /\ last' = Call("load_model", i, <<p>>, inst[i], r.raised, NoResult, FALSE)
  /\ UNCHANGED <<store, clock, fitCalls, everFitted, savedSummary, fitting>>

\* the wall clock advances between calls
Tick ==
  /\ clock + 1 \in Times
  /\ clock' = clock + 1
  /\ UNCHANGED <<inst, store, last, fitCalls, everFitted, savedSummary, fitting>>

\* the calls on one instance: training, forecasting and the read-only queries
Next ==
  \/ \E t \in TableIds, tc \in TargetCols, dc \in DateCols,
        optOK \in BOOLEAN, metricsOK \in BOOLEAN : Fit("a", t, tc, dc, optOK, metricsOK)
  \/ \E n \in Periods, f \in Freqs, h \in BOOLEAN, fr \in FrameArgs :
        Predict("a", n, f, h, fr)
  \/ GetModelSummary("a")
  \/ GetFeatureImportance("a")
  \/ Tick

Spec == Init /\ [][Next]_vars

\* one instance trains and saves, the other loads
NextStore ==
  \/ \E t \in TableIds, tc \in TargetCols, dc \in DateCols,
        optOK \in BOOLEAN, metricsOK \in BOOLEAN : Fit("a", t, tc, dc, optOK, metricsOK)
  \/ \E p \in Paths, ioOK \in BOOLEAN : SaveModel("a", p, ioOK)
  \/ \E p \in Paths : LoadModel("b", p)
  \/ \E i \in Instances : GetModelSummary(i)

SpecStore == InitStore /\ [][NextStore]_vars

----------------------------------------------------------------------------
(* Data preparation on its own: prepare_data called on every small table.  *)
(* A generated table has the columns ds, y and id; id holds the position   *)
(* of the record in the caller's table, so that a record can be followed   *)
(* through the sort.                                                       *)

MaxRows == 4

GenDates == {1, 2}
GenValues == {NaN, Cell(0), Cell(100)}
GenCols == <<Col("ds", "datetime64"), Col("y", "float64"), Col("id", "object")>>

GenTables ==
  UNION {{[cols |-> GenCols,
           rows |-> [i \in 1..n |-> <<Cell(d[i]), v[i], Cell(i)>>]] :
            d \in [1..n -> GenDates], v \in [1..n -> GenValues]} : n \in 0..MaxRows}

\* the calls: a generated table under Prophet's column names, and the
\* tables of the fit calls under every naming
PrepCalls ==
  {<<df, "y", "ds">> : df \in GenTables}
    \cup {<<Tables[t], tc, dc>> : t \in TableIds, tc \in TargetCols, dc \in DateCols}

\* prepare_data on the arguments of the pending call; it reads nothing of
\* the instance
PrepareData ==
  /\ last.op = "call" /\ last.args \in PrepCalls
  /\ LET df == last.args[1]
         target_col == last.args[2]
         date_col == last.args[3]
     IN \E r \in prepare_data_outcomes(df, target_col, date_col) :
          last' = Call("prepare_data", "a", last.args, inst["a"],
                       IF r.ok THEN "none" ELSE "ModelTrainingException",
                       [out |-> r, input |-> CallerFrameAfter(df)], FALSE)
  /\ UNCHANGED <<inst, store, clock, fitCalls, everFitted, savedSummary, fitting>>

\* the column types of the frames handed to add_regressors
Dtypes == {"float64", "int64", "float32", "int32", "float16", "int16", "uint8",
           "object", "datetime64"}

\* the columns ds and y followed by none, one or two other columns
ColumnLists ==
  LET base == <<Col("ds", "datetime64"), Col("y", "float64")>>
  IN {base}
       \cup {base \o <<Col("x", t)>> : t \in Dtypes}
       \cup {base \o <<Col("x", t), Col("z", u)>> : t \in Dtypes, u \in Dtypes}

RegressorCalls == {<<cols>> : cols \in ColumnLists}

\* add_regressors(model, data) of the pending call on a new Prophet object:
\* the regressors registered on it are returned, self.feature_columns is
\* extended
AddRegressors ==
  /\ last.op = "call" /\ last.args \in RegressorCalls
  /\ LET s == [inst["a"] EXCEPT !.model = NewProphet(inst["a"].seasonality_mode)]
         r == add_regressors(s, last.args[1], 1)
     IN /\ inst' = [inst EXCEPT !["a"].feature_columns = r.feature_columns]
        /\ last' = Call("add_regressors", "a", last.args, inst["a"], "none",
                        r.model.extra_regressors, FALSE)
  /\ UNCHANGED <<store, clock, fitCalls, everFitted, savedSummary, fitting>>

NextData ==
  \/ PrepareData
  \/ AddRegressors

\* one instance as constructed with the default arguments
InitData ==
  /\ inst = [i \in Instances |-> DefaultInstance]
  /\ InitRest

\* an instance as constructed and a call of prepare_data or add_regressors
\* about to be made on it, with any of the arguments
InitCalls ==
  /\ inst = [i \in Instances |-> DefaultInstance]
  /\ store = [p \in Paths |-> NoFile]
  /\ clock = 0
  /\ last \in {Call("call", "a", c, DefaultInstance, "none", NoResult, FALSE) :
                 c \in PrepCalls \cup RegressorCalls}
  /\ fitCalls = [i \in Instances |-> 0]
  /\ everFitted = [i \in Instances |-> FALSE]
  /\ savedSummary = [p \in Paths |-> NoResult]
  /\ fitting = NoFit

SpecData == InitCalls /\ [][NextData]_vars

----------------------------------------------------------------------------
(* Cross-validation: cross_validate on an instance that fit calls have     *)
(* brought to any state, with the tables of the fit calls and a long daily *)
(* series as data.                                                         *)

SeriesDays == 500

\* a gap-free daily series of n days, day 0 first, with a weekly pattern
DailySeries(n) ==
  [cols |-> <<Col("ds", "datetime64"), Col("y", "float64")>>,
   rows |-> [k \in 1..n |-> <<Cell(k - 1), Cell(10 + (k % 7))>>]]

CVTables == [t \in TableIds \cup {"daily"} |->
               IF t = "daily" THEN DailySeries(SeriesDays) ELSE Tables[t]]
CVTableIds == DOMAIN CVTables
Horizons == {30}
Initials == {365, 100}
CVPeriods == {30}

\* the parameters of prophet.diagnostics.cross_validation, in order
CrossValidationParams == <<"model", "horizon", "period", "initial", "parallel">>

\* Python's argument binding: a call raises TypeError when a keyword names a
\* parameter that a positional argument has already filled
BindRaises(params, npositional, keywords) ==
  \E k \in 1..npositional : params[k] \in keywords

\* prophet.diagnostics.generate_cutoffs on the timestamps ds: cutoffs are
\* laid backwards from the last timestamp minus the horizon, period apart,
\* down to the first timestamp plus initial; returned in ascending order
RECURSIVE CutoffsFrom(_, _, _)
CutoffsFrom(cutoff, lowest, period) ==
  IF cutoff < lowest THEN <<>>
  ELSE Append(CutoffsFrom(cutoff - period, lowest, period), cutoff)

generate_cutoffs(first, final, horizon, initial, period) ==
  CutoffsFrom(final - horizon, first + initial, period)

NoFolds == <<>>

\* the outcome of a cross_validate call: the exception raised, the statement
\* that failed, the value and timestamp column names handed to prepare_data
\* (none when it was not reached) and the cutoffs of the folds returned
CVResult(raised, failed_at, prepared, cutoffs) ==
  [raised |-> raised, failed_at |-> failed_at, prepared |-> prepared, cutoffs |-> cutoffs]

\* cross_validation on the prepared frame df: the cutoffs of its folds, or
\* the library's error when no cutoff fits the data
folds_of(df, cols, horizon, initial, period) ==
  LET kd == ColIndex(df, "ds")
      cut == generate_cutoffs(df.rows[1][kd].v, df.rows[Len(df.rows)][kd].v,
                              horizon, initial, period)
  IN IF cut = <<>> THEN CVResult("ModelTrainingException", "cross_validation", cols, NoFolds)
     ELSE CVResult("none", "none", cols, cut)

\* the arguments of the prepare_data call at line 323: the value column is
\* self.target_column, date_col is not passed and stays "ds"
CVPrepareCols(s) == <<s.target_column, "ds">>

\* cross_validate(data, horizon, initial, period).  The call at lines
\* 326-333 passes self.model and prepared_data by position and horizon,
\* initial, period and parallel by keyword.
cross_validate(s, t, horizon, initial, period) ==
  IF s.model = NoModel THEN CVResult("PredictionException", "guard", <<>>, NoFolds)
  ELSE IF PrepRaises(Renamed(CVTables[t], CVPrepareCols(s)[1], CVPrepareCols(s)[2]))
       THEN CVResult("ModelTrainingException", "prepare_data", CVPrepareCols(s), NoFolds)
  ELSE IF BindRaises(CrossValidationParams, 2, {"horizon", "initial", "period", "parallel"})
       THEN CVResult("ModelTrainingException", "cross_validation", CVPrepareCols(s), NoFolds)
  ELSE IF s.model.state # "fitted"
       THEN CVResult("ModelTrainingException", "cross_validation", CVPrepareCols(s), NoFolds)
  ELSE folds_of(prepare_data(CVTables[t], CVPrepareCols(s)[1], CVPrepareCols(s)[2]).df,
                CVPrepareCols(s), horizon, initial, period)

CrossValidate(i, t, horizon, initial, period) ==
  /\ LET r == cross_validate(inst[i], t, horizon, initial, period)
     IN last' = Call("cross_validate", i, <<t, horizon, initial, period>>, inst[i],
                     r.raised, r, FALSE)
  /\ UNCHANGED <<inst, store, clock, fitCalls, everFitted, savedSummary, fitting>>

NextCV ==
  \/ \E t \in TableIds, tc \in TargetCols, dc \in DateCols,
        optOK \in BOOLEAN, metricsOK \in BOOLEAN : Fit("a", t, tc, dc, optOK, metricsOK)
  \/ \E t \in CVTableIds, h \in Horizons, ini \in Initials, p \in CVPeriods :
        CrossValidate("a", t, h, ini, p)

SpecCV == InitData /\ [][NextCV]_vars

----------------------------------------------------------------------------
(* fit running in one thread while other threads call predict, save_model  *)
(* and get_model_summary on the same instance.  The class holds no lock and *)
(* fit works on self from its first assignment on, so a thread switch       *)
(* between two statements of fit shows the other threads what fit has       *)
(* assigned so far.  Every statement of fit that assigns to the instance is *)
(* a step; the line reached is fitting.pc.                                  *)

\* the fit calls of the threaded runs: the three tables under their own
\* column names, and one under names it does not have
ThreadFitArgs ==
  {<<"reg", "y", "ds">>, <<"named", "sales", "date">>, <<"short", "y", "ds">>,
   <<"named", "y", "ds">>}

Running(i, pc) == fitting.pc = pc /\ fitting.i = i

\* the frame prepared at line 168, a local of the running call
RunningPrep == PreparedData[fitting.t, fitting.target_col, fitting.date_col]

\* the except clause of fit (lines 217-218): the call ends with
\* ModelTrainingException and the instance stays as the steps left it
FitRaises(i) ==
  /\ last' = Call("fit", i, <<fitting.metricsOK>>, fitting.pre,
                  "ModelTrainingException", NoResult, FALSE)
  /\ fitting' = NoFit
  /\ UNCHANGED <<inst, store, clock, fitCalls, everFitted, savedSummary>>

\* a thread calls fit(data, target_col, date_col)
FitCall(i, t, target_col, date_col) ==
  /\ fitting = NoFit
  /\ fitCalls[i] < MaxFits
  /\ fitting' = [pc |-> "168", i |-> i, t |-> t, target_col |-> target_col,
                 date_col |-> date_col, pre |-> inst[i], metricsOK |-> TRUE]
  /\ fitCalls' = [fitCalls EXCEPT ![i] = @ + 1]
  /\ last' = Call("fit_call", i, <<t, target_col, date_col>>, inst[i], "none",
                  NoResult, FALSE)
  /\ UNCHANGED <<inst, store, clock, everFitted, savedSummary>>

\* line 168: prepared_data = self.prepare_data(data, target_col, date_col)
Fit168(i) ==
  /\ Running(i, "168")
  /\ IF RunningPrep.ok
     THEN /\ fitting' = [fitting EXCEPT !.pc = "169"]
          /\ UNCHANGED <<inst, store, clock, last, fitCalls, everFitted, savedSummary>>
     ELSE FitRaises(i)

\* line 169: self.target_column = target_col
Fit169(i) ==
  /\ Running(i, "169")
  /\ inst' = [inst EXCEPT ![i].target_column = fitting.target_col]
  /\ fitting' = [fitting EXCEPT !.pc = "172"]
  /\ UNCHANGED <<store, clock, last, fitCalls, everFitted, savedSummary>>

\* lines 172-186: self.model = Prophet(...), which raises on a seasonality
\* mode it does not know; add_custom_seasonalities returns the same object
Fit172(i) ==
  /\ Running(i, "172")
  /\ IF inst[i].seasonality_mode \in {"additive", "multiplicative"}
     THEN /\ inst' = [inst EXCEPT ![i].model = NewProphet(inst[i].seasonality_mode)]
          /\ fitting' = [fitting EXCEPT !.pc = "189"]
          /\ UNCHANGED <<store, clock, last, fitCalls, everFitted, savedSummary>>
     ELSE FitRaises(i)

\* line 189: self.model = self.add_regressors(self.model, prepared_data)
Fit189(i) ==
  /\ Running(i, "189")
  /\ inst' = [inst EXCEPT ![i] = add_regressors(@, RunningPrep.df.cols, 1)]
  /\ fitting' = [fitting EXCEPT !.pc = "195"]
  /\ UNCHANGED <<store, clock, last, fitCalls, everFitted, savedSummary>>

\* lines 192-195: self.model.fit(prepared_data)
Fit195(i, optOK) ==
  /\ Running(i, "195")
  /\ IF ProphetFits(inst[i].model, RunningPrep.df, optOK)
     THEN /\ inst' = [inst EXCEPT ![i].model.state = "fitted",
                                  ![i].model.history_dates = HistoryDates(RunningPrep.df),
                                  ![i].model.fit =
                                     <<fitting.t, fitting.target_col, fitting.date_col>>]
          /\ fitting' = [fitting EXCEPT !.pc = "198"]
          /\ UNCHANGED <<store, clock, last, fitCalls, everFitted, savedSummary>>
     ELSE FitRaises(i)

\* line 198: self._calculate_training_metrics(prepared_data)
Fit198(i, metricsOK) ==
  /\ Running(i, "198")
  /\ inst' = [inst EXCEPT ![i] = calculate_training_metrics(@, metricsOK)]
  /\ fitting' = [fitting EXCEPT !.pc = "201", !.metricsOK = metricsOK]
  /\ UNCHANGED <<store, clock, last, fitCalls, everFitted, savedSummary>>

\* lines 201-212: self.metadata.update({...})
Fit201(i) ==
  /\ Running(i, "201")
  /\ inst' = [inst EXCEPT ![i].metadata =
                [keys |-> {"training_samples", "feature_columns", "target_column",
                           "training_date", "model_params"},
                 training_samples |-> Len(RunningPrep.df.rows),
                 feature_columns |-> "self.feature_columns",
                 target_column |-> inst[i].target_column,
                 training_date |-> clock,
                 model_params |-> ModelParams(inst[i])]]
  /\ fitting' = [fitting EXCEPT !.pc = "215"]
  /\ UNCHANGED <<store, clock, last, fitCalls, everFitted, savedSummary>>

\* line 215: return self
Fit215(i) ==
  /\ Running(i, "215")
  /\ last' = Call("fit", i, <<fitting.metricsOK>>, fitting.pre, "none", NoResult, FALSE)
  /\ everFitted' = [everFitted EXCEPT ![i] = TRUE]
  /\ fitting' = NoFit
  /\ UNCHANGED <<inst, store, clock, fitCalls, savedSummary>>

\* one thread runs fit on the instance, the others forecast, save and query
NextThreads ==
  \/ \E c \in ThreadFitArgs : FitCall("a", c[1], c[2], c[3])
  \/ Fit168("a")
  \/ Fit169("a")
  \/ Fit172("a")
  \/ Fit189("a")
  \/ \E optOK \in BOOLEAN : Fit195("a", optOK)
  \/ \E metricsOK \in BOOLEAN : Fit198("a", metricsOK)
  \/ Fit201("a")
  \/ Fit215("a")
  \/ \E n \in Periods, f \in Freqs, h \in BOOLEAN : Predict("a", n, f, h, "None")
  \/ \E p \in Paths, ioOK \in BOOLEAN : SaveModel("a", p, ioOK)
  \/ GetModelSummary("a")

SpecThreads == Init /\ [][NextThreads]_vars

----------------------------------------------------------------------------
(* load_model on files of any content: joblib.load returns whatever was     *)
(* pickled at the path, a dictionary with all, some or none of the entries *)
(* of a saved model, or it raises.                                          *)

\* the dictionary save_model writes for a default instance fitted at time 0
\* on the table with a regressor
SavedFitted ==
  [exists |-> TRUE,
   model |-> [state |-> "fitted", seasonality_mode |-> "multiplicative",
              extra_regressors |-> <<"x">>, history_dates |-> <<1, 2, 3>>,
              fit |-> <<"reg", "y", "ds">>],
   feature_columns |-> <<"x">>,
   target_column |-> "y",
   training_metrics |-> [keys |-> {"mape", "rmse", "mae", "r2"}, of |-> <<"reg", "y", "ds">>],
   metadata |-> [keys |-> {"training_samples", "feature_columns", "target_column",
                           "training_date", "model_params"},
                 training_samples |-> 3,
                 feature_columns |-> "self.feature_columns",
                 target_column |-> "y",
                 training_date |-> 0,
                 model_params |-> [seasonality_mode |-> "multiplicative",
                                   changepoint_prior_scale |-> "0.05",
                                   seasonality_prior_scale |-> "10.0",
                                   holidays_prior_scale |-> "10.0"]]]

\* the dictionaries holding any subset of the entries of saved
ArtifactsOf(saved) ==
  {[e \in K \cup {"exists"} |-> saved[e]] :
     K \in SUBSET {ArtifactEntries[k] : k \in 1..Len(ArtifactEntries)}}

\* no readable file, or a dictionary with all, some or none of the entries
Artifacts == {NoFile} \cup ArtifactsOf(SavedFitted)

\* the loading instance as constructed, any file at the path
InitLoad ==
  /\ inst \in [Instances -> Constructed]
  /\ inst["a"] = DefaultInstance
  /\ store \in [Paths -> Artifacts]
  /\ clock = 0
  /\ last = Call("init", "b", <<>>, DefaultInstance, "none", NoResult, FALSE)
  /\ fitCalls = [i \in Instances |-> 0]
  /\ everFitted = [i \in Instances |-> FALSE]
  /\ savedSummary = [p \in Paths |-> NoResult]
  /\ fitting = NoFit

\* the instance is trained or not, then loads the file
NextLoad ==
  \/ \E t \in TableIds, tc \in TargetCols, dc \in DateCols,
        optOK \in BOOLEAN, metricsOK \in BOOLEAN : Fit("b", t, tc, dc, optOK, metricsOK)
  \/ \E p \in Paths : LoadModel("b", p)
  \/ GetModelSummary("b")

SpecLoad == InitLoad /\ [][NextLoad]_vars

----------------------------------------------------------------------------
(* Claims.  inst[last.i] is the instance right after the call in last: only *)
(* Tick leaves last alone, and it leaves the instances alone too.           *)

IsFitted(s) == s.model # NoModel /\ s.model.state = "fitted"
FitFailed == last.op = "fit" /\ last.raised # "none"
FitReturned == last.op = "fit" /\ last.raised = "none"
Dates(rows) == [k \in 1..Len(rows) |-> rows[k].ds]

\* C1: a fit call that fails on a Fitted instance leaves the fitted model,
\* feature_columns, target_column, training_metrics and metadata as they were.
C1_FailedRefitKeepsFittedState ==
  (FitFailed /\ IsFitted(last.pre))
    => FittedState(inst[last.i]) = FittedState(last.pre)

\* C2: after a fit call that fails on a never-fitted instance the instance is
\* as an unfitted one: no model, summary not_trained, save_model rejected,
\* predict rejected.
C2_FailedFirstFitRetainsNoModel ==
  (FitFailed /\ last.pre.model = NoModel)
    => /\ inst[last.i].model = NoModel
       /\ DOMAIN get_model_summary(inst[last.i]) = {"status"}
       /\ save_model(inst[last.i], NoFile, TRUE).raised # "none"
       /\ \A n \in Periods, f \in Freqs, h \in BOOLEAN, fr \in FrameArgs :
            predict(inst[last.i], n, f, h, fr, clock).raised = "PredictionException"

\* C3: predict on an instance on which no fit call has returned raises
\* PredictionException and returns no rows, whatever its arguments.
C3_PredictBeforeAnyFitFails ==
  (last.op = "predict" /\ ~everFitted[last.i])
    => (last.raised = "PredictionException" /\ last.result = <<>>)

\* predict was called on an instance whose only fit calls failed after the
\* Prophet object was created
C3_Witness ==
  /\ last.op = "predict" /\ ~everFitted[last.i]
  /\ last.pre.model # NoModel
  /\ last.args[1] > 0

\* C4: a fit call that returns although its metrics pass failed leaves a
\* fitted model and empty training_metrics, on a first fit and on a refit.
C4_FailedMetricsLeaveEmptyMetrics ==
  (FitReturned /\ last.args = <<FALSE>>)
    => (IsFitted(inst[last.i]) /\ inst[last.i].training_metrics = EmptyMetrics)

\* C5: after a fit call that returns, feature_columns is the list of the
\* regressor columns registered for that fit's data, each once.
C5_FeatureColumnsOfLatestFit ==
  FitReturned => inst[last.i].feature_columns = inst[last.i].model.extra_regressors

\* C6: on a model fitted on the daily series with one populated numeric
\* regressor, predict(n, "D", include_history=False) without a
\* future-regressor frame returns n rows, one day apart, for n >= 1.
C6_PredictHorizonRows ==
  (/\ last.op = "predict"
   /\ IsFitted(last.pre)
   /\ last.pre.model.extra_regressors = <<"x">>
   /\ last.args[1] >= 1
   /\ last.args[2] = "D" /\ last.args[3] = FALSE /\ last.args[4] = "None")
    => /\ last.raised = "none"
       /\ Len(last.result) = last.args[1]
       /\ \A k \in 1..(Len(last.result) - 1) :
            last.result[k + 1].ds = last.result[k].ds + 1

\* C7: the rows of a predict call that was given a future-regressor frame
\* and returned are the grid timestamps, one row each, in grid order.
C7_MergeKeepsGrid ==
  (last.op = "predict" /\ last.raised = "none" /\ last.args[4] # "None")
    => Dates(last.result) =
         make_future_dataframe(last.pre.model, last.args[1], last.args[2], last.args[3])

WithoutPredictionDate(rows) ==
  [k \in 1..Len(rows) |->
     [f \in DOMAIN rows[k] \ {"prediction_date"} |-> rows[k][f]]]

C10_LoadedSummaryEqualsSaved ==
  (/\ last.op = "load_model" /\ last.raised = "none"
   /\ IsFitted(inst[last.i]))
    => get_model_summary(inst[last.i]) = savedSummary[last.args[1]]

\* C11: save_model on an instance that holds no fitted model (never fitted,
\* or only failed fit calls) raises and writes no file, so every file in
\* the store holds a fitted model.
C11_SaveRejectsUnfitted ==
  (last.op = "save_model" /\ ~IsFitted(last.pre))
    => /\ last.raised # "none"
       /\ store[last.args[1]].exists => IsFitted(store[last.args[1]].model)

\* C12: every file save_model wrote carries a schema/version entry, and
\* load_model returns only for a file that carries one.
C12_ArtifactVersionMarker ==
  /\ (last.op = "save_model" /\ last.raised = "none")
       => "schema_version" \in DOMAIN store[last.args[1]]
  /\ (last.op = "load_model" /\ last.raised = "none")
       => "schema_version" \in DOMAIN store[last.args[1]]

----------------------------------------------------------------------------
(* Claims on prepare_data.  PrepIn is the caller's table, PrepOut the       *)
(* prepared frame; for a generated table, InputRow(i) is the caller's      *)
(* record that became row i of the prepared frame.                         *)

PrepReturned == last.op = "prepare_data" /\ last.raised = "none"
PrepIn == last.args[1]
PrepOut == last.result.out.df
Tracked == HasCol(PrepIn, "id") /\ HasCol(PrepIn, "ds") /\ HasCol(PrepIn, "y")
KDs == ColIndex(PrepOut, "ds")
KY == ColIndex(PrepOut, "y")
KId == ColIndex(PrepOut, "id")
InputRow(i) == PrepIn.rows[PrepOut.rows[i][KId].v]
WasMissing(i) == InputRow(i)[KY].nan
\* the value column after the fill and before the clip
FilledRows ==
  Bfill(Ffill([i \in 1..Len(PrepOut.rows) |-> InputRow(i)], KY), KY)

\* C13: the prepared frame has as many records as the caller's table, each
\* record of the table once, and the caller's table is as it was.
C13_PrepareKeepsRecords ==
  PrepReturned =>
    /\ Len(PrepOut.rows) = Len(PrepIn.rows)
    /\ last.result.input = PrepIn
    /\ Tracked =>
         \A n \in 1..Len(PrepIn.rows) :
           Cardinality({i \in 1..Len(PrepOut.rows) : PrepOut.rows[i][KId].v = n}) = 1

\* a table of four records with a missing value, a repeated timestamp and a
\* value that was capped
C13_Witness ==
  /\ PrepReturned /\ Tracked
  /\ Len(PrepIn.rows) >= 4
  /\ \E i \in 1..Len(PrepIn.rows) : PrepIn.rows[i][KY].nan
  /\ \E i, j \in 1..Len(PrepIn.rows) : i # j /\ PrepIn.rows[i][KDs] = PrepIn.rows[j][KDs]
  /\ \E i \in 1..Len(PrepOut.rows) : PrepOut.rows[i][KY].v # 8 * FilledRows[i][KY].v

\* C14: every prepared value lies within the fences Q1 - 1.5 IQR and
\* Q3 + 1.5 IQR of the filled value column; a filled value within the fences
\* is returned as it is, one outside is set to the nearer fence.
C14_ValuesWithinFences ==
  (PrepReturned /\ Tracked) =>
    LET filled == <<>> \o FilledRows
        lo == LowerBound8(filled, KY)
        up == UpperBound8(filled, KY)
    IN \A i \in 1..Len(PrepOut.rows) :
         ~PrepOut.rows[i][KY].nan =>
           LET f8 == 8 * filled[i][KY].v
               v8 == PrepOut.rows[i][KY].v
           IN /\ lo <= v8 /\ v8 <= up
              /\ (lo <= f8 /\ f8 <= up) => v8 = f8
              /\ f8 < lo => v8 = lo
              /\ f8 > up => v8 = up

\* one value was capped at the upper fence and another was left as it was
C14_Witness ==
  /\ PrepReturned /\ Tracked
  /\ \E i, j \in 1..Len(PrepOut.rows) :
       /\ ~PrepOut.rows[i][KY].nan /\ ~PrepOut.rows[j][KY].nan
       /\ 8 * FilledRows[i][KY].v > UpperBound8(FilledRows, KY)
       /\ PrepOut.rows[i][KY].v = UpperBound8(FilledRows, KY)
       /\ PrepOut.rows[j][KY].v = 8 * FilledRows[j][KY].v

\* C15: the prepared records are in non-decreasing order of timestamp, and
\* records with the same timestamp are in the order of the caller's table.
C15_SortedAndStable ==
  (PrepReturned /\ Tracked) =>
    \A i, j \in 1..Len(PrepOut.rows) :
      i < j => /\ PrepOut.rows[i][KDs].v <= PrepOut.rows[j][KDs].v
               /\ PrepOut.rows[i][KDs].v = PrepOut.rows[j][KDs].v
                    => PrepOut.rows[i][KId].v < PrepOut.rows[j][KId].v

\* C16: a record whose value was missing has the prepared value of the
\* nearest earlier record that had a value, or, with none earlier, of the
\* first later one; no value is missing when the table had a value.
C16_FilledForwardThenBackward ==
  (PrepReturned /\ Tracked) =>
    LET n == Len(PrepOut.rows)
        Max(S) == CHOOSE x \in S : \A y \in S : y <= x
        Min(S) == CHOOSE x \in S : \A y \in S : x <= y
    IN /\ \A i \in 1..n :
            WasMissing(i) =>
              LET earlier == {j \in 1..(i - 1) : ~WasMissing(j)}
                  later == {j \in (i + 1)..n : ~WasMissing(j)}
              IN IF earlier # {} THEN PrepOut.rows[i][KY] = PrepOut.rows[Max(earlier)][KY]
                 ELSE later # {} => PrepOut.rows[i][KY] = PrepOut.rows[Min(later)][KY]
       /\ (\E i \in 1..n : ~WasMissing(i)) => \A i \in 1..n : ~PrepOut.rows[i][KY].nan

\* the first record in time had no value, and so had one between two
\* records with different values
C16_Witness ==
  /\ PrepReturned /\ Tracked
  /\ Len(PrepOut.rows) >= 4
  /\ WasMissing(1)
  /\ \E i \in 2..(Len(PrepOut.rows) - 1) :
       /\ WasMissing(i) /\ ~WasMissing(i - 1) /\ ~WasMissing(i + 1)
       /\ InputRow(i - 1)[KY] # InputRow(i + 1)[KY]

\* C17: prepare_data returns no frame without records and no frame whose
\* values are all missing.
C17_NoEmptyOrAllMissingResult ==
  PrepReturned =>
    /\ PrepOut.rows # <<>>
    /\ \E i \in 1..Len(PrepOut.rows) : ~PrepOut.rows[i][KY].nan

----------------------------------------------------------------------------
(* Claims on fit's guard and on the regressor discovery *)

\* the period in days of the shortest seasonal component fit enables: weekly
\* (daily is off; monthly, quarterly and yearly are longer)
WeeklyPeriodDays == 7

\* C18: a fit call returns only when the prepared series spans two full
\* cycles of the shortest enabled seasonal component.
C18_FitNeedsTwoCycles ==
  FitReturned =>
    LET h == inst[last.i].model.history_dates
    IN h[Len(h)] - h[1] >= 2 * WeeklyPeriodDays

\* the column types that hold numbers
AnyNumericDtypes == {"float64", "int64", "float32", "int32", "float16", "int16", "uint8"}

\* C19: add_regressors registers every column other than ds and y that holds
\* numbers of any numeric type, in column order, and skips the others
\* without raising.
C19_NumericColumnsRegistered ==
  (last.op = "add_regressors") =>
    LET cols == last.args[1]
        numeric == SelectSeq(cols, LAMBDA c : c.name \notin {"ds", "y"}
                                              /\ c.dtype \in AnyNumericDtypes)
    IN /\ last.raised = "none"
       /\ last.result = [k \in 1..Len(numeric) |-> numeric[k].name]

----------------------------------------------------------------------------
(* Claims on cross_validate *)

\* C20: cross_validate with initial 365, period 30 and horizon 30 days over
\* the 500-day daily series, on a fitted instance, returns three folds with
\* the cutoffs at day 365, 395 and 425.
C20_ThreeFoldsForward ==
  (/\ last.op = "cross_validate"
   /\ IsFitted(last.pre) /\ last.pre.target_column = "y"
   /\ last.args = <<"daily", 30, 365, 30>>)
    => (last.raised = "none" /\ last.result.cutoffs = <<365, 395, 425>>)

\* C23: on an instance fitted on a table, cross_validate with that table
\* prepares it with the columns that the fit call took as value and as
\* timestamp, and the preparation does not fail.
C23_CrossValidatePreparesAsFit ==
  (/\ last.op = "cross_validate"
   /\ IsFitted(last.pre)
   /\ last.args[1] = last.pre.model.fit[1])
    => /\ Renamed(CVTables[last.args[1]], last.result.prepared[1], last.result.prepared[2])
            = Renamed(CVTables[last.args[1]], last.pre.model.fit[2], last.pre.model.fit[3])
       /\ last.result.failed_at # "prepare_data"

----------------------------------------------------------------------------
(* Claims on fit running beside other calls *)

\* the steps of a fit call that reached its return have made the instance
\* that fit as one call makes
StepsAgreeWithFit ==
  (fitting # NoFit /\ fitting.pc = "215")
    => \E now \in Times :
         inst[fitting.i] = fit(fitting.pre, fitting.t, fitting.target_col, fitting.date_col,
                               TRUE, fitting.metricsOK, now).state

ReadCalls == {"predict", "save_model", "get_model_summary"}

\* the fitted states the running fit call can return with
CompleteAfter(f) ==
  {FittedState(r.state) :
     r \in {x \in {fit(f.pre, f.t, f.target_col, f.date_col, optOK, metricsOK, now) :
                     optOK \in BOOLEAN, metricsOK \in BOOLEAN, now \in Times} :
              x.raised = "none"}}

\* C21: a predict, save_model or get_model_summary call made while a fit call
\* is running on the instance finds no model, or works on the fitted state
\* the instance had before that fit call, or on the complete state the fit
\* call returns with; never on a model that is created and not fitted, nor
\* on a mix of old and new fields.
C21_RunningFitNotExposed ==
  (last.op \in ReadCalls /\ fitting # NoFit /\ last.i = fitting.i)
    => \/ last.pre.model = NoModel
       \/ FittedState(last.pre) = FittedState(fitting.pre)
       \/ FittedState(last.pre) \in CompleteAfter(fitting)

----------------------------------------------------------------------------
(* Claims on load_model *)

\* the dictionary of the files is the one save_model writes after that fit
SavedFittedIsSaved ==
  SavedFitted = ModelData(fit(DefaultInstance, "reg", "y", "ds", TRUE, TRUE, 0).state)

\* C22: a load_model call that raises (no readable file, or a dictionary
\* that lacks an entry) leaves model, feature_columns, target_column,
\* training_metrics and metadata of the instance as they were.
C22_FailedLoadChangesNothing ==
  (last.op = "load_model" /\ last.raised # "none")
    => \A k \in 1..Len(ArtifactEntries) :
         inst[last.i][ArtifactEntries[k]] = last.pre[ArtifactEntries[k]]

====
